---- MODULE Spec2Model ----
(***************************************************************************)
(* A model of scripts/fit_all.py: the command-line pipeline main() and the *)
(* functions it is built from (train_flows, load_flows, sample_from_flows, *)
(* batch_calc_df_deta, clipped_vector_mean, save_df_data, load_df_data).   *)
(*                                                                         *)
(* Arrays are sequences; real numbers are exact rationals <<num, den>> in  *)
(* lowest terms (floating-point rounding is not modelled).  A masked entry *)
(* of a numpy masked array is the value Masked.                            *)
(***************************************************************************)
EXTENDS Integers, Sequences, FiniteSets, TLC

\* ------------------------------------------------------------------ bounds
MaxSamp == 3        \* most samples (flows) given to clipped_vector_mean
MaxRounds == 2      \* most clipping rounds
\* the values an array cell may hold
CellValues == {0, 1}
\* the shapes <<n_point, n_dim>> of the sample arrays
Shapes == {<<1, 1>>, <<2, 1>>, <<1, 2>>}
\* the clip thresholds <<num, den>> tried: 1/2, 1, 2 and the default 5
Thresholds == {<<1, 2>>, <<1, 1>>, <<2, 1>>, <<5, 1>>}

\* ------------------------------------------------------------- arithmetic
Abs(x) == IF x < 0 THEN -x ELSE x

RECURSIVE GCD(_, _)
GCD(a, b) == IF b = 0 THEN a ELSE GCD(b, a % b)

LCM(a, b) == (a * b) \div GCD(a, b)

\* the rational n/d (d > 0) in lowest terms
Rat(n, d) == LET g == GCD(Abs(n), d) IN <<n \div g, d \div g>>

Masked == "masked"

RECURSIVE SumSeq(_)
SumSeq(s) == IF s = <<>> THEN 0 ELSE Head(s) + SumSeq(Tail(s))

RECURSIVE LCMSeq(_)
LCMSeq(s) == IF s = <<>> THEN 1 ELSE LCM(Head(s), LCMSeq(Tail(s)))

\* the array <<f[1], ..., f[n]>> of a function f on 1..n, every element
\* computed once
RECURSIVE TabTo(_, _)
TabTo(f, last) == IF last = 0 THEN <<>> ELSE Append(TabTo(f, last - 1), f[last])

Tab(f) == TabTo(f, Cardinality(DOMAIN f))

\* the indices at which the boolean array test holds, in increasing order
RECURSIVE SelectFrom(_, _, _)
SelectFrom(test, i, n) ==
    IF i > n THEN <<>>
    ELSE IF test[i] THEN <<i>> \o SelectFrom(test, i + 1, n)
    ELSE SelectFrom(test, i + 1, n)

SelectIdx(test) == SelectFrom(test, 1, Cardinality(DOMAIN test))

\* ----------------------------------------------------- clipped_vector_mean
\* np.mean(v_samp, axis=0): entry [p][d] is the mean over the samples
PlainMean(v, n_samp, n_point, n_dim) ==
    Tab([p \in 1..n_point |-> Tab([d \in 1..n_dim |->
        Rat(SumSeq(Tab([s \in 1..n_samp |-> v[s][p][d]])), n_samp)])])

\* the data a (possibly masked) mean entry holds: numpy keeps 0 under a mask
MeanData(m) == IF m = Masked THEN <<0, 1>> ELSE m

\* np.linalg.norm(v_samp - v_mean[None], axis=2) at [s][p], as the square of
\* the norm scaled by the common denominator of the mean at point p (the
\* scale is the same for every sample of the point)
Dist2(v, v_mean, s, p, n_dim) ==
    LET K == LCMSeq(Tab([d \in 1..n_dim |-> MeanData(v_mean[p][d])[2]]))
    IN SumSeq(Tab([d \in 1..n_dim |->
          LET m == MeanData(v_mean[p][d])
              t == K * v[s][p][d] - m[1] * (K \div m[2])
          IN t * t]))

\* np.median of the norms whose squares are D: the two middle elements of
\* the sorted sequence (the same element twice when the length is odd);
\* the median is the mean of their square roots.  dv_samp[p] below holds
\* the squared norms of point p, one per sample
MedianPair(D) ==
    LET n == Len(D)
        srt == SortSeq(D, LAMBDA a, b : a < b)
    IN <<srt[(n + 1) \div 2], srt[(n \div 2) + 1]>>

\* sqrt(S) > (cn/cd) * (sqrt(A) + sqrt(B)) / 2, decided exactly in integers
Exceeds(S, A, B, c) ==
    LET L == 4 * c[2] * c[2] * S - c[1] * c[1] * (A + B)
    IN L > 0 /\ L * L > 4 * c[1] * c[1] * c[1] * c[1] * A * B

\* sqrt(S) >= (cn/cd) * (sqrt(A) + sqrt(B)) / 2
ExceedsOrEquals(S, A, B, c) ==
    LET L == 4 * c[2] * c[2] * S - c[1] * c[1] * (A + B)
    IN L >= 0 /\ L * L >= 4 * c[1] * c[1] * c[1] * c[1] * A * B

\* OutlierIdx with the comparison >= in place of >
OutlierIdxGE(v, v_mean, c, n_samp, n_point, n_dim) ==
    LET dv_samp == Tab([p \in 1..n_point |->
                       Tab([t \in 1..n_samp |-> Dist2(v, v_mean, t, p, n_dim)])])
        med == Tab([p \in 1..n_point |-> MedianPair(dv_samp[p])])
    IN Tab([s \in 1..n_samp |-> Tab([p \in 1..n_point |->
           ExceedsOrEquals(dv_samp[p][s], med[p][1], med[p][2], c)])])

\* idx = (dv_samp > clip_threshold * np.median(dv_samp, axis=0)[None])
OutlierIdx(v, v_mean, c, n_samp, n_point, n_dim) ==
    LET dv_samp == Tab([p \in 1..n_point |->
                       Tab([t \in 1..n_samp |-> Dist2(v, v_mean, t, p, n_dim)])])
        med == Tab([p \in 1..n_point |-> MedianPair(dv_samp[p])])
    IN Tab([s \in 1..n_samp |-> Tab([p \in 1..n_point |->
           Exceeds(dv_samp[p][s], med[p][1], med[p][2], c)])])

\* mask_bad = np.repeat(np.reshape(idx, idx.shape+(1,)), n_dim, axis=2)
MaskBad(idx, n_samp, n_point, n_dim) ==
    Tab([s \in 1..n_samp |-> Tab([p \in 1..n_point |->
        Tab([d \in 1..n_dim |-> idx[s][p]])])])

\* MaskedMean with the mask forgotten: the plain mean again
MaskedMeanNoMask(v, mask, n_samp, n_point, n_dim) ==
    Tab([p \in 1..n_point |-> Tab([d \in 1..n_dim |->
        Rat(SumSeq(Tab([s \in 1..n_samp |-> v[s][p][d]])), n_samp)])])

\* np.ma.mean(np.ma.masked_array(v_samp, mask=mask), axis=0)
MaskedMean(v, mask, n_samp, n_point, n_dim) ==
    Tab([p \in 1..n_point |-> Tab([d \in 1..n_dim |->
        LET keep == SelectIdx([s \in 1..n_samp |-> ~mask[s][p][d]])
        IN IF keep = <<>> THEN Masked
           ELSE Rat(SumSeq(Tab([k \in 1..Len(keep) |-> v[keep[k]][p][d]])),
                    Len(keep))])])

NoMask(n_samp, n_point, n_dim) ==
    Tab([s \in 1..n_samp |-> Tab([p \in 1..n_point |->
        Tab([d \in 1..n_dim |-> FALSE])])])

\* one pass of the loop body of clipped_vector_mean: the new mask
ClipMask(v, v_mean, c, n_samp, n_point, n_dim) ==
    MaskBad(OutlierIdx(v, v_mean, c, n_samp, n_point, n_dim), n_samp, n_point, n_dim)

\* one pass of the loop body of clipped_vector_mean: the new mean
ClipRound(v, mean, c, n_samp, n_point, n_dim) ==
    MaskedMean(v, ClipMask(v, mean, c, n_samp, n_point, n_dim), n_samp, n_point, n_dim)

\* clipped_vector_mean as a function: the mean after `done` rounds.  A mean
\* has one row per point; asking for its length has the previous round's mean
\* computed once, before the round uses it
RECURSIVE ClipIter(_, _, _, _, _, _)
ClipIter(v, c, done, n_samp, n_point, n_dim) ==
    IF done = 0 THEN PlainMean(v, n_samp, n_point, n_dim)
    ELSE LET prev == ClipIter(v, c, done - 1, n_samp, n_point, n_dim)
         IN IF Len(prev) = n_point
            THEN ClipRound(v, prev, c, n_samp, n_point, n_dim)
            ELSE prev

clipped_vector_mean(v, c, n_rounds) ==
    ClipIter(v, c, n_rounds, Len(v), Len(v[1]), Len(v[1][1]))
\* ------------------------------------------------------------------ flows
\* A flow is a record [src, id, w]: src says which call built the object
\* ("train": train_flows, "load": load_flows), id is its index in the
\* ensemble and w stands for its trained weights.
FlowWeights == {0, 1}

Flow(src, id, w) == [src |-> src, id |-> id, w |-> w]

\* the rows <<x>> of eta (one phase-space coordinate is kept)
EtaRows == {<<x>> : x \in CellValues}

\* flow.sample: the rows a flow may give, which depend on its weights
SampleRows(flow) == {<<x>> : x \in 0..flow.w}

\* calc_grads on one row: the gradient of flow.prob at the row, a
\* deterministic function of the flow's weights and of the row
FlowGrad(flow, row) == Tab([d \in 1..Len(row) |-> flow.w + row[d]])

RECURSIVE Concat(_)
Concat(ss) == IF ss = <<>> THEN <<>> ELSE Head(ss) \o Concat(Tail(ss))

\* np.median(df_deta_indiv, axis=0): the mean of the two middle values
MedianReduce(indiv) ==
    LET n == Len(indiv)
    IN Tab([p \in 1..Len(indiv[1]) |-> Tab([d \in 1..Len(indiv[1][1]) |->
          LET srt == SortSeq(Tab([s \in 1..n |-> indiv[s][p][d]]), LAMBDA a, b : a < b)
          IN Rat(srt[(n + 1) \div 2] + srt[(n \div 2) + 1], 2)])])

\* the defaults of clipped_vector_mean(v_samp, clip_threshold=5, rounds=5)
DefaultClipThreshold == 5
DefaultRounds == 5

\* clipped_vector_mean(df_deta_indiv, axis=0): axis goes to **kwargs
ClippedReduce(indiv) ==
    clipped_vector_mean(indiv, <<DefaultClipThreshold, 1>>, DefaultRounds)

\* f_reduce(df_deta_indiv, axis=0)
Reduce(f_reduce, indiv) ==
    IF f_reduce = "np.median" THEN MedianReduce(indiv) ELSE ClippedReduce(indiv)

\* np.zeros((n_flows,)+eta.shape)
Zeros(n_flows, eta) ==
    Tab([i \in 1..n_flows |-> Tab([j \in 1..Len(eta) |->
        Tab([d \in 1..Len(eta[j]) |-> 0])])])

\* an optional value: None (or a name not yet bound), or Some(x)
None == <<>>
Unbound == <<>>
Some(x) == <<x>>

VARIABLES
    \* ---- clipped_vector_mean
    v_samp,          \* the samples, [sample][point][dim]
    clip_threshold,  \* <<num, den>>
    rounds,          \* the number of rounds asked for
    cvm_i,           \* rounds done
    v_mean,          \* the current mean, [point][dim]
    mask_bad,        \* the last mask, [sample][point][dim]
    cvm_pc,          \* "idle", "loop" or "returned"
    \* ---- batch_calc_df_deta
    bc_pc,           \* "idle", "loop", "returned" or "raised"
    bc_flow,         \* argument flow
    bc_eta,          \* argument eta: a sequence of rows
    batch_size,      \* argument batch_size
    bc_k,            \* the index k of the next batch of eta_dataset
    bc_df_deta,      \* the list df_deta: one array of gradient rows per batch
    bc_calls,        \* the batches (row indices) handed to calc_grads so far
    bar,             \* None, or Some(the value last given to bar.update)
    n_generated,     \* the running counter
    bc_ret,          \* the array returned
    \* ---- sample_from_flows
    sf_pc,           \* "idle", "start", "sample", "grads", "in_batch_calc",
                     \* "returned" or "raised"
    flow_list,       \* argument flow_list
    n_samples,       \* argument n_samples
    return_indiv,    \* argument return_indiv
    grad_batch_size, \* argument grad_batch_size
    sample_batch_size, \* argument sample_batch_size
    f_reduce,        \* argument f_reduce: "np.median" or "clipped_vector_mean"
    n_batches,       \* n_samples // (n_flows * sample_batch_size)
    sf_i,            \* the index of the flow the running loop is at
    sf_k,            \* the index of the batch the sampling loop is at
    eta,             \* the list of sampled batches, then their concatenation
    df_deta_indiv,   \* Unbound, or Some(the array [flow][row][dim])
    sf_ret,          \* Some(the dict returned)
    sf_exc,          \* the name of the exception raised, or ""
    \* ---- train_flows
    tf_pc,           \* "idle", "create", "mkdir", "save_specs", "train",
                     \* "save_loss", "save_plot", "returned"
    tf_data,         \* argument data
    tf_n_flows,      \* argument n_flows
    tf_i,            \* the loop index i
    tf_flow_list,    \* the list flow_list
    data_mean,       \* np.mean(data, axis=0)
    data_std,        \* np.std(data, axis=0)
    tf_log,          \* the steps taken so far, in order
    \* ---- the file system
    fs_ckpt,         \* directory index -> None or Some(weights of its checkpoint)
    fs_files,        \* the specs, loss and plot files written
    fs_grads,        \* the file --df-grads-fname: None or Some(the dict stored)
    \* ---- main
    pc,              \* where main is
    args,            \* the parsed command line
    params_Phi,      \* params['Phi']: key -> value
    params_df,       \* params['df']['n_flows']
    flows,           \* the local flows
    df_data,         \* the local df_data
    calls,           \* the stages main has called, in order
    sf_given,        \* the flow list handed to sample_from_flows
    tp_given         \* what train_potential was called with

cvmVars == <<v_samp, clip_threshold, rounds, cvm_i, v_mean, mask_bad, cvm_pc>>
bcVars == <<bc_pc, bc_flow, bc_eta, batch_size, bc_k, bc_df_deta, bc_calls, bar,
            n_generated, bc_ret>>
sfArgs == <<flow_list, n_samples, return_indiv, grad_batch_size,
            sample_batch_size, f_reduce>>
sfVars == <<sf_pc, sfArgs, n_batches, sf_i, sf_k, eta, df_deta_indiv, sf_ret, sf_exc>>
tfVars == <<tf_pc, tf_data, tf_n_flows, tf_i, tf_flow_list, data_mean, data_std, tf_log>>
fsVars == <<fs_ckpt, fs_files, fs_grads>>
mainVars == <<pc, args, params_Phi, params_df, flows, df_data, calls, sf_given, tp_given>>
vars == <<cvmVars, bcVars, sfVars, tfVars, fsVars, mainVars>>

\* ---------------------------------------------------- nothing is running
CvmIdle ==
    /\ v_samp = <<>> /\ clip_threshold = <<1, 1>> /\ rounds = 0 /\ cvm_i = 0
    /\ v_mean = <<>> /\ mask_bad = <<>> /\ cvm_pc = "idle"

BcIdle ==
    /\ bc_pc = "idle" /\ bc_flow = None /\ bc_eta = <<>> /\ batch_size = 1
    /\ bc_k = 0 /\ bc_df_deta = <<>> /\ bc_calls = <<>> /\ bar = None
    /\ n_generated = 0 /\ bc_ret = <<>>

SfIdle ==
    /\ sf_pc = "idle" /\ flow_list = <<>> /\ n_samples = 0 /\ return_indiv = FALSE
    /\ grad_batch_size = 1 /\ sample_batch_size = 1 /\ f_reduce = "np.median"
    /\ n_batches = 0 /\ sf_i = 0 /\ sf_k = 0 /\ eta = <<>>
    /\ df_deta_indiv = Unbound /\ sf_ret = None /\ sf_exc = ""

TfIdle ==
    /\ tf_pc = "idle" /\ tf_data = <<>> /\ tf_n_flows = 0 /\ tf_i = 0
    /\ tf_flow_list = <<>> /\ data_mean = None /\ data_std = None /\ tf_log = <<>>

\* the same, as the effect of an action
BcReset ==
    /\ bc_pc' = "idle" /\ bc_flow' = None /\ bc_eta' = <<>> /\ batch_size' = 1
    /\ bc_k' = 0 /\ bc_df_deta' = <<>> /\ bc_calls' = <<>> /\ bar' = None
    /\ n_generated' = 0 /\ bc_ret' = <<>>

SfReset ==
    /\ sf_pc' = "idle" /\ flow_list' = <<>> /\ n_samples' = 0 /\ return_indiv' = FALSE
    /\ grad_batch_size' = 1 /\ sample_batch_size' = 1 /\ f_reduce' = "np.median"
    /\ n_batches' = 0 /\ sf_i' = 0 /\ sf_k' = 0 /\ eta' = <<>>
    /\ df_deta_indiv' = Unbound /\ sf_ret' = None /\ sf_exc' = ""

TfReset ==
    /\ tf_pc' = "idle" /\ tf_data' = <<>> /\ tf_n_flows' = 0 /\ tf_i' = 0
    /\ tf_flow_list' = <<>> /\ data_mean' = None /\ data_std' = None /\ tf_log' = <<>>

MainIdle ==
    /\ pc = "idle" /\ args = None /\ params_Phi = <<>> /\ params_df = 0
    /\ flows = Unbound /\ df_data = Unbound /\ calls = <<>>
    /\ sf_given = None /\ tp_given = None

\* ------------------------------------- clipped_vector_mean, step by step
CvmShape == <<Len(v_samp), Len(v_samp[1]), Len(v_samp[1][1])>>

SampleArrays ==
    UNION {[1..n -> [1..sh[1] -> [1..sh[2] -> CellValues]]] :
              n \in 1..MaxSamp, sh \in Shapes}

\* a call clipped_vector_mean(v_samp, clip_threshold, rounds): line 214-217
CvmInit ==
    /\ v_samp \in SampleArrays
    /\ clip_threshold \in Thresholds
    /\ rounds \in 0..MaxRounds
    /\ cvm_i = 0
    /\ v_mean = PlainMean(v_samp, CvmShape[1], CvmShape[2], CvmShape[3])
    /\ mask_bad = NoMask(CvmShape[1], CvmShape[2], CvmShape[3])
    /\ cvm_pc = "loop"
    /\ BcIdle /\ SfIdle /\ TfIdle /\ MainIdle
    /\ fs_ckpt = <<>> /\ fs_files = {} /\ fs_grads = None

\* one iteration of `for i in range(rounds)`
CvmRound ==
    /\ cvm_pc = "loop"
    /\ cvm_i < rounds
    /\ mask_bad' = ClipMask(v_samp, v_mean, clip_threshold,
                            CvmShape[1], CvmShape[2], CvmShape[3])
    /\ v_mean' = MaskedMean(v_samp, mask_bad', CvmShape[1], CvmShape[2], CvmShape[3])
    /\ cvm_i' = cvm_i + 1
    /\ UNCHANGED <<v_samp, clip_threshold, rounds, cvm_pc>>
    /\ UNCHANGED <<bcVars, sfVars, tfVars, fsVars, mainVars>>

\* the loop is exhausted: return v_mean
CvmReturn ==
    /\ cvm_pc = "loop"
    /\ cvm_i >= rounds
    /\ cvm_pc' = "returned"
    /\ UNCHANGED <<v_samp, clip_threshold, rounds, cvm_i, v_mean, mask_bad>>
    /\ UNCHANGED <<bcVars, sfVars, tfVars, fsVars, mainVars>>

CvmNext == CvmRound \/ CvmReturn

SpecCVM == CvmInit /\ [][CvmNext]_vars
\* ------------------------------------------------------ batch_calc_df_deta
MaxData == 4        \* most rows of eta in a direct call
MaxBatch == 3       \* largest batch_size in a direct call

\* the rows of batch k (from 0) of Dataset.from_tensor_slices(eta).batch(bs):
\* bs consecutive rows, the last batch holding what is left
BatchRows(n_data, bs, k) ==
    {j \in 1..n_data : k * bs < j /\ j <= (k + 1) * bs}

BatchIdx(n_data, bs, k) ==
    SelectIdx([j \in 1..n_data |-> j \in BatchRows(n_data, bs, k)])

\* the batches of the dataset: ceil(n_data / bs)
NumBatches(n_data, bs) == (n_data + bs - 1) \div bs

\* the state on entry to batch_calc_df_deta(flow, eta, batch_size)
BcEnter(flow, eta_arg, bs) ==
    /\ bc_pc' = "loop"
    /\ bc_flow' = flow
    /\ bc_eta' = eta_arg
    /\ batch_size' = bs
    /\ bc_k' = 0
    /\ bc_df_deta' = <<>>
    /\ bc_calls' = <<>>
    /\ bar' = None
    /\ n_generated' = 0
    /\ bc_ret' = <<>>

\* one iteration of `for k,b in enumerate(eta_dataset)`
BcBatch ==
    /\ bc_pc = "loop"
    /\ bc_k < NumBatches(Len(bc_eta), batch_size)
    /\ LET b == BatchIdx(Len(bc_eta), batch_size, bc_k)
       IN /\ bar' = IF bc_k # 0 THEN Some(n_generated) ELSE bar
          /\ bc_df_deta' = Append(bc_df_deta,
                                  Tab([j \in 1..Len(b) |-> FlowGrad(bc_flow, bc_eta[b[j]])]))
          /\ bc_calls' = Append(bc_calls, b)
          /\ n_generated' = n_generated + Len(b)
    /\ bc_k' = bc_k + 1
    /\ UNCHANGED <<bc_pc, bc_flow, bc_eta, batch_size, bc_ret>>
    /\ UNCHANGED <<cvmVars, sfVars, tfVars, fsVars, mainVars>>

\* after the loop: bar.update(n_data), np.concatenate, return.  bar is still
\* None when the loop ran at most once; None has no update (AttributeError)
BcFinish ==
    /\ bc_pc = "loop"
    /\ bc_k >= NumBatches(Len(bc_eta), batch_size)
    /\ IF bar = None
       THEN /\ bc_pc' = "raised"
            /\ UNCHANGED <<bar, bc_ret>>
       ELSE /\ bar' = Some(Len(bc_eta))
            /\ bc_ret' = Concat(bc_df_deta)
            /\ bc_pc' = "returned"
    /\ UNCHANGED <<bc_flow, bc_eta, batch_size, bc_k, bc_df_deta, bc_calls, n_generated>>
    /\ UNCHANGED <<cvmVars, sfVars, tfVars, fsVars, mainVars>>

\* a direct call batch_calc_df_deta(flow, eta, batch_size)
BcInit ==
    /\ bc_pc = "loop"
    /\ bc_flow \in {Flow("load", 0, w) : w \in FlowWeights}
    /\ bc_eta \in UNION {[1..n -> EtaRows] : n \in 0..MaxData}
    /\ batch_size \in 1..MaxBatch
    /\ bc_k = 0 /\ bc_df_deta = <<>> /\ bc_calls = <<>> /\ bar = None
    /\ n_generated = 0 /\ bc_ret = <<>>
    /\ CvmIdle /\ SfIdle /\ TfIdle /\ MainIdle
    /\ fs_ckpt = <<>> /\ fs_files = {} /\ fs_grads = None

BcNext == BcBatch \/ BcFinish

SpecBatch == BcInit /\ [][BcNext]_vars

\* ------------------------------------------------------- sample_from_flows
MaxFlows == 3       \* most flows of an ensemble
MaxNSamples == 3    \* largest n_samples in a direct call
MaxGradBatch == 2   \* largest grad_batch_size in a direct call

\* the state on entry to sample_from_flows(flow_list, n_samples, ...)
SfEnter(fl, ns, ri, gbs, sbs, fr) ==
    /\ sf_pc' = "start"
    /\ flow_list' = fl
    /\ n_samples' = ns
    /\ return_indiv' = ri
    /\ grad_batch_size' = gbs
    /\ sample_batch_size' = sbs
    /\ f_reduce' = fr
    /\ n_batches' = 0 /\ sf_i' = 0 /\ sf_k' = 0 /\ eta' = <<>>
    /\ df_deta_indiv' = Unbound /\ sf_ret' = None /\ sf_exc' = ""

\* n_flows = len(flow_list); n_batches = n_samples // (n_flows * sample_batch_size)
SfStart ==
    /\ sf_pc = "start"
    /\ IF Len(flow_list) * sample_batch_size = 0
       THEN /\ sf_pc' = "raised"
            /\ sf_exc' = "ZeroDivisionError"
            /\ UNCHANGED n_batches
       ELSE /\ n_batches' = n_samples \div (Len(flow_list) * sample_batch_size)
            /\ sf_pc' = "sample"
            /\ UNCHANGED sf_exc
    /\ UNCHANGED <<sfArgs, sf_i, sf_k, eta, df_deta_indiv, sf_ret>>
    /\ UNCHANGED <<cvmVars, bcVars, tfVars, fsVars, mainVars>>

\* eta.append(sample_batch().numpy()) for flow sf_i, batch sf_k
SfSampleBatch ==
    /\ sf_pc = "sample"
    /\ sf_i < Len(flow_list)
    /\ n_batches > 0
    /\ \E b \in [1..sample_batch_size -> SampleRows(flow_list[sf_i + 1])] :
          eta' = Append(eta, b)
    /\ IF sf_k + 1 < n_batches
       THEN sf_k' = sf_k + 1 /\ UNCHANGED sf_i
       ELSE sf_k' = 0 /\ sf_i' = sf_i + 1
    /\ UNCHANGED <<sf_pc, sfArgs, n_batches, df_deta_indiv, sf_ret, sf_exc>>
    /\ UNCHANGED <<cvmVars, bcVars, tfVars, fsVars, mainVars>>

\* eta = np.concatenate(eta, axis=0), which refuses an empty list; then
\* df_deta_indiv is created only if return_indiv
SfConcat ==
    /\ sf_pc = "sample"
    /\ sf_i >= Len(flow_list) \/ n_batches = 0
    /\ IF eta = <<>>
       THEN /\ sf_pc' = "raised"
            /\ sf_exc' = "ValueError"
            /\ UNCHANGED <<eta, df_deta_indiv>>
       ELSE /\ eta' = Concat(eta)
            /\ df_deta_indiv' = IF return_indiv THEN Some(Zeros(Len(flow_list), eta'))
                                ELSE Unbound
            /\ sf_pc' = "grads"
            /\ UNCHANGED sf_exc
    /\ sf_i' = 0
    /\ UNCHANGED <<sfArgs, n_batches, sf_k, sf_ret>>
    /\ UNCHANGED <<cvmVars, bcVars, tfVars, fsVars, mainVars>>

\* the right-hand side of df_deta_indiv[i] = batch_calc_df_deta(flow, eta, ...)
SfCallBatchCalc ==
    /\ sf_pc = "grads"
    /\ sf_i < Len(flow_list)
    /\ BcEnter(flow_list[sf_i + 1], eta, grad_batch_size)
    /\ sf_pc' = "in_batch_calc"
    /\ UNCHANGED <<sfArgs, n_batches, sf_i, sf_k, eta, df_deta_indiv, sf_ret, sf_exc>>
    /\ UNCHANGED <<cvmVars, tfVars, fsVars, mainVars>>

\* batch_calc_df_deta has ended: its exception passes through; otherwise the
\* value is stored in df_deta_indiv[i], a name bound only if return_indiv
SfStoreGrads ==
    /\ sf_pc = "in_batch_calc"
    /\ bc_pc \in {"returned", "raised"}
    /\ IF bc_pc = "raised"
       THEN /\ sf_pc' = "raised"
            /\ sf_exc' = "AttributeError"
            /\ UNCHANGED <<df_deta_indiv, sf_i>>
       ELSE IF df_deta_indiv = Unbound
       THEN /\ sf_pc' = "raised"
            /\ sf_exc' = "UnboundLocalError"
            /\ UNCHANGED <<df_deta_indiv, sf_i>>
       ELSE /\ df_deta_indiv' = [df_deta_indiv EXCEPT ![1][sf_i + 1] = bc_ret]
            /\ sf_i' = sf_i + 1
            /\ sf_pc' = "grads"
            /\ UNCHANGED sf_exc
    /\ bc_pc' = "idle"
    /\ UNCHANGED <<bc_flow, bc_eta, batch_size, bc_k, bc_df_deta, bc_calls, bar,
                   n_generated, bc_ret>>
    /\ UNCHANGED <<sfArgs, n_batches, sf_k, eta, sf_ret>>
    /\ UNCHANGED <<cvmVars, tfVars, fsVars, mainVars>>

\* the dict sample_from_flows returns
SfDict(e, indiv, ri, fr) ==
    LET base == [key \in {"eta", "df_deta"} |->
                    IF key = "eta" THEN e ELSE Reduce(fr, indiv)]
    IN IF ri
       THEN [key \in {"eta", "df_deta", "df_deta_indiv"} |->
                IF key = "df_deta_indiv" THEN indiv ELSE base[key]]
       ELSE base

\* df_deta = f_reduce(df_deta_indiv, axis=0); build ret; return ret
SfReturn ==
    /\ sf_pc = "grads"
    /\ sf_i >= Len(flow_list)
    /\ sf_ret' = Some(SfDict(eta, df_deta_indiv[1], return_indiv, f_reduce))
    /\ sf_pc' = "returned"
    /\ UNCHANGED <<sfArgs, n_batches, sf_i, sf_k, eta, df_deta_indiv, sf_exc>>
    /\ UNCHANGED <<cvmVars, bcVars, tfVars, fsVars, mainVars>>

FlowLists ==
    UNION {[1..n -> {Flow("load", 0, w) : w \in FlowWeights}] : n \in 0..MaxFlows}

\* the index of a flow in its list is its id
Numbered(fl) == [i \in 1..Len(fl) |-> [fl[i] EXCEPT !.id = i - 1]]

\* a direct call sample_from_flows(flow_list, n_samples, return_indiv, ...)
SfInit ==
    /\ sf_pc = "start"
    /\ flow_list \in {Numbered(fl) : fl \in FlowLists}
    /\ n_samples \in 0..MaxNSamples
    /\ return_indiv \in BOOLEAN
    /\ grad_batch_size \in 1..MaxGradBatch
    /\ sample_batch_size = 1
    /\ f_reduce \in {"np.median", "clipped_vector_mean"}
    /\ n_batches = 0 /\ sf_i = 0 /\ sf_k = 0 /\ eta = <<>>
    /\ df_deta_indiv = Unbound /\ sf_ret = None /\ sf_exc = ""
    /\ CvmIdle /\ BcIdle /\ TfIdle /\ MainIdle
    /\ fs_ckpt = <<>> /\ fs_files = {} /\ fs_grads = None

SfNext ==
    \/ SfStart \/ SfSampleBatch \/ SfConcat \/ SfCallBatchCalc
    \/ SfStoreGrads \/ SfReturn
    \/ BcBatch \/ BcFinish

SpecSample == SfInit /\ [][SfNext]_vars

\* ------------------------------------------------------------- train_flows
MaxRows == 2        \* most rows of the training data

\* pattern.format(i)
Format(pattern, i) == <<pattern, i>>

\* os.path.split(fname)[0] of a formatted flow file name: with the default
\* pattern '.../flow_{:02d}/flow' each index has a directory of its own
CheckpointDir(flow_fname) == flow_fname[2]

\* np.mean(data, axis=0)
DataMean(data) == Rat(SumSeq(data), Len(data))

\* np.std(data, axis=0), held as its square: sum((x - mean)^2) / n
DataStd(data) ==
    LET n == Len(data)
        sq == SumSeq([j \in 1..n |-> data[j] * data[j]])
    IN Rat(n * sq - SumSeq(data) * SumSeq(data), n * n)

\* flow_ffjord_tf.FFJORDFlow(6, ..., base_mean=data_mean, base_std=data_std)
NewFlow(i, mean, std) ==
    [src |-> "train", id |-> i, w |-> 0, base_mean |-> mean, base_std |-> std]

\* the weights flow_ffjord_tf.train_flow leaves flow i with (one outcome of
\* the training is kept for each index)
TrainedWeight(i) == i % 2

\* one entry of tf_log
Step(name, path) == [step |-> name, path |-> path]

\* f: the function f with f[k] set to v, k added to its domain if new
Put(f, k, v) == [x \in DOMAIN f \cup {k} |-> IF x = k THEN v ELSE f[x]]

\* the state on entry to train_flows(data, fname_pattern, ..., n_flows):
\* lines 59-68
TfEnter(data, n) ==
    /\ tf_pc' = "loop"
    /\ tf_data' = data
    /\ tf_n_flows' = n
    /\ tf_i' = 0
    /\ tf_flow_list' = <<>>
    /\ data_mean' = DataMean(data)
    /\ data_std' = DataStd(data)
    /\ tf_log' = <<>>

\* TfCreate with the directory never made: save_specs follows at once
TfCreateNoMkdir ==
    /\ tf_pc = "loop"
    /\ tf_i < tf_n_flows
    /\ tf_flow_list' = Append(tf_flow_list, NewFlow(tf_i, data_mean, data_std))
    /\ tf_log' = Append(tf_log, Step("create", Format("", tf_i)))
    /\ tf_pc' = "save_specs"
    /\ UNCHANGED <<tf_data, tf_n_flows, tf_i, data_mean, data_std>>
    /\ UNCHANGED <<cvmVars, bcVars, sfVars, fsVars, mainVars>>

\* for i in range(n_flows): flow_model = FFJORDFlow(...); flow_list.append
TfCreate ==
    /\ tf_pc = "loop"
    /\ tf_i < tf_n_flows
    /\ tf_flow_list' = Append(tf_flow_list, NewFlow(tf_i, data_mean, data_std))
    /\ tf_log' = Append(tf_log, Step("create", Format("", tf_i)))
    /\ tf_pc' = "mkdir"
    /\ UNCHANGED <<tf_data, tf_n_flows, tf_i, data_mean, data_std>>
    /\ UNCHANGED <<cvmVars, bcVars, sfVars, fsVars, mainVars>>

\* Path(checkpoint_dir).mkdir(parents=True, exist_ok=True)
TfMkdir ==
    /\ tf_pc = "mkdir"
    /\ LET dir == CheckpointDir(Format("fname_pattern", tf_i))
       IN /\ fs_ckpt' = IF dir \in DOMAIN fs_ckpt THEN fs_ckpt
                        ELSE Put(fs_ckpt, dir, None)
          /\ tf_log' = Append(tf_log, Step("mkdir", Format("checkpoint_dir", dir)))
    /\ tf_pc' = "save_specs"
    /\ UNCHANGED <<tf_data, tf_n_flows, tf_i, tf_flow_list, data_mean, data_std>>
    /\ UNCHANGED <<fs_files, fs_grads>>
    /\ UNCHANGED <<cvmVars, bcVars, sfVars, mainVars>>

\* flow_model.save_specs(flow_fname)
TfSaveSpecs ==
    /\ tf_pc = "save_specs"
    /\ fs_files' = fs_files \cup {Format("fname_pattern", tf_i)}
    /\ tf_log' = Append(tf_log, Step("save_specs", Format("fname_pattern", tf_i)))
    /\ tf_pc' = "train"
    /\ UNCHANGED <<tf_data, tf_n_flows, tf_i, tf_flow_list, data_mean, data_std>>
    /\ UNCHANGED <<fs_ckpt, fs_grads>>
    /\ UNCHANGED <<cvmVars, bcVars, sfVars, mainVars>>

\* flow_ffjord_tf.train_flow(flow_model, data, ..., checkpoint_dir=...): the
\* flow gets its trained weights and a checkpoint of them is left in its
\* directory
TfTrain ==
    /\ tf_pc = "train"
    /\ tf_flow_list' = [tf_flow_list EXCEPT ![tf_i + 1].w = TrainedWeight(tf_i)]
    /\ fs_ckpt' = Put(fs_ckpt, CheckpointDir(Format("fname_pattern", tf_i)),
                      Some(TrainedWeight(tf_i)))
    /\ tf_log' = Append(tf_log, Step("train", Format("checkpoint_dir", tf_i)))
    /\ tf_pc' = "save_loss"
    /\ UNCHANGED <<tf_data, tf_n_flows, tf_i, data_mean, data_std>>
    /\ UNCHANGED <<fs_files, fs_grads>>
    /\ UNCHANGED <<cvmVars, bcVars, sfVars, mainVars>>

\* utils.save_loss_history(f'{flow_fname}_loss.txt', ...)
TfSaveLoss ==
    /\ tf_pc = "save_loss"
    /\ fs_files' = fs_files \cup {Format("fname_pattern_loss.txt", tf_i)}
    /\ tf_log' = Append(tf_log, Step("save_loss", Format("fname_pattern_loss.txt", tf_i)))
    /\ tf_pc' = "save_plot"
    /\ UNCHANGED <<tf_data, tf_n_flows, tf_i, tf_flow_list, data_mean, data_std>>
    /\ UNCHANGED <<fs_ckpt, fs_grads>>
    /\ UNCHANGED <<cvmVars, bcVars, sfVars, mainVars>>

\* fig.savefig(plot_fname_pattern.format(i), dpi=200); the next i
TfSavePlot ==
    /\ tf_pc = "save_plot"
    /\ fs_files' = fs_files \cup {Format("plot_fname_pattern", tf_i)}
    /\ tf_log' = Append(tf_log, Step("save_plot", Format("plot_fname_pattern", tf_i)))
    /\ tf_i' = tf_i + 1
    /\ tf_pc' = "loop"
    /\ UNCHANGED <<tf_data, tf_n_flows, tf_flow_list, data_mean, data_std>>
    /\ UNCHANGED <<fs_ckpt, fs_grads>>
    /\ UNCHANGED <<cvmVars, bcVars, sfVars, mainVars>>

\* return flow_list
TfReturn ==
    /\ tf_pc = "loop"
    /\ tf_i >= tf_n_flows
    /\ tf_pc' = "returned"
    /\ UNCHANGED <<tf_data, tf_n_flows, tf_i, tf_flow_list, data_mean, data_std, tf_log>>
    /\ UNCHANGED <<cvmVars, bcVars, sfVars, fsVars, mainVars>>

DataChoices == UNION {[1..n -> CellValues] : n \in 1..MaxRows}

\* a direct call train_flows(data, fname_pattern, plot_fname_pattern, ...,
\* n_flows=n) on an empty output directory
TfInit ==
    /\ tf_pc = "loop"
    /\ tf_data \in DataChoices
    /\ tf_n_flows \in 0..MaxFlows
    /\ tf_i = 0
    /\ tf_flow_list = <<>>
    /\ data_mean = DataMean(tf_data)
    /\ data_std = DataStd(tf_data)
    /\ tf_log = <<>>
    /\ CvmIdle /\ BcIdle /\ SfIdle /\ MainIdle
    /\ fs_ckpt = <<>> /\ fs_files = {} /\ fs_grads = None

TfNext ==
    \/ TfCreate \/ TfMkdir \/ TfSaveSpecs \/ TfTrain \/ TfSaveLoss
    \/ TfSavePlot \/ TfReturn

SpecTF == TfInit /\ [][TfNext]_vars

\* -------------------------------------------------------------------- main
\* the values of --input tried
InputNames == {"data.json", "data.h5", "data.txt"}

\* os.path.splitext(fname)[1]
Ext(fname) ==
    CASE fname = "data.json" -> ".json"
      [] fname = "data.h5" -> ".h5"
      [] OTHER -> ".txt"

\* the rows the input file holds
FileData(fname) == IF Ext(fname) = ".json" THEN <<0, 1>> ELSE <<1>>

\* load_data raises ValueError unless the extension is .json, .h5 or .hdf5
LoadDataRaises(fname) == Ext(fname) \notin {".json", ".h5", ".hdf5"}

\* the keys of params['Phi'] that load_params gives a default
PhiKeys ==
    {"n_samples", "grad_batch_size", "sample_batch_size", "n_hidden",
     "hidden_size", "xi", "lam", "l2", "n_epochs", "batch_size",
     "validation_frac", "optimizer", "warmup_proportion"}

\* params['Phi'] with the three sampling parameters set
PhiParams(ns, gbs, sbs) ==
    [key \in PhiKeys |->
        CASE key = "n_samples" -> ns
          [] key = "grad_batch_size" -> gbs
          [] key = "sample_batch_size" -> sbs
          [] OTHER -> 0]

\* d.pop(key): the dict without the key
Pop(d, key) == [x \in DOMAIN d \ {key} |-> d[x]]

\* PopSampling with the pop of 'sample_batch_size' left out
PopSamplingTwo(d) == Pop(Pop(d, "n_samples"), "grad_batch_size")

\* the three pops of lines 520-522 and 526-528
PopSampling(d) ==
    Pop(Pop(Pop(d, "n_samples"), "grad_batch_size"), "sample_batch_size")

\* n_max = 9999: load_flows looks for the directories of indices 0..n_max-1
n_max == 9999

\* the indices of a set, in increasing order
RECURSIVE Ascending(_)
Ascending(S) ==
    IF S = {} THEN <<>>
    ELSE LET m == CHOOSE x \in S : \A y \in S : x <= y
         IN <<m>> \o Ascending(S \ {m})

\* the directories load_flows finds, in increasing order of index
CheckpointDirs == Ascending({i \in DOMAIN fs_ckpt : i < n_max})

\* load_flows(fname_patterns): one flow per directory found, from its
\* latest checkpoint
load_flows ==
    [k \in 1..Len(CheckpointDirs) |->
        Flow("load", k - 1, fs_ckpt[CheckpointDirs[k]][1])]

\* load_df_data(fname, recalc_avg): the datasets of the file (already
\* float32, so astype('f4') changes nothing), df_deta recomputed on request
load_df_data(file, recalc_avg) ==
    CASE recalc_avg = "mean" ->
           [key \in DOMAIN file \cup {"df_deta"} |->
               IF key = "df_deta" THEN ClippedReduce(file["df_deta_indiv"])
               ELSE file[key]]
      [] recalc_avg = "median" ->
           [key \in DOMAIN file \cup {"df_deta"} |->
               IF key = "df_deta" THEN MedianReduce(file["df_deta_indiv"])
               ELSE file[key]]
      [] OTHER -> file

Args ==
    [no_flow_training : BOOLEAN, no_flow_sampling : BOOLEAN,
     flow_median : BOOLEAN, no_potential_training : BOOLEAN,
     input : InputNames]

\* the values of params['Phi']['n_samples'] and ['grad_batch_size'] tried
NSamplesChoices == {3}
GradBatchChoices == {1, 2, 3}
\* the values of params['df']['n_flows'] tried
NFlowsChoices == {1, 3}

\* a run of main begins: the command line is parsed and the params loaded
MainBegin ==
    /\ pc' = "start"
    /\ args' \in Args
    /\ \E ns \in NSamplesChoices, gbs \in GradBatchChoices :
          params_Phi' = PhiParams(ns, gbs, 1)
    /\ params_df' \in NFlowsChoices
    /\ flows' = Unbound
    /\ df_data' = Unbound
    /\ calls' = <<>>
    /\ sf_given' = None
    /\ tp_given' = None

\* lines 498-511: unless --no-flow-training, load the data and call train_flows
MainFlowTraining ==
    /\ pc = "start"
    /\ IF args.no_flow_training
       THEN /\ pc' = "load_flows"
            /\ UNCHANGED <<calls, tfVars>>
       ELSE IF LoadDataRaises(args.input)
       THEN /\ pc' = "raised"
            /\ UNCHANGED <<calls, tfVars>>
       ELSE /\ TfEnter(FileData(args.input), params_df)
            /\ calls' = Append(calls, "train_flows")
            /\ pc' = "train_flows"
    /\ UNCHANGED <<args, params_Phi, params_df, flows, df_data, sf_given, tp_given>>
    /\ UNCHANGED <<cvmVars, bcVars, sfVars, fsVars>>

\* flows = train_flows(...)
MainFlowsTrained ==
    /\ pc = "train_flows"
    /\ tf_pc = "returned"
    /\ flows' = Some(tf_flow_list)
    /\ tf_pc' = "idle"
    /\ pc' = "load_flows"
    /\ UNCHANGED <<tf_data, tf_n_flows, tf_i, tf_flow_list, data_mean, data_std, tf_log>>
    /\ UNCHANGED <<args, params_Phi, params_df, df_data, calls, sf_given, tp_given>>
    /\ UNCHANGED <<cvmVars, bcVars, sfVars, fsVars>>

\* MainLoadFlows with the flows of train_flows kept when there are any
MainLoadFlowsKeepTrained ==
    /\ pc = "load_flows"
    /\ flows' = IF flows = Unbound THEN Some(load_flows) ELSE flows
    /\ calls' = Append(calls, "load_flows")
    /\ pc' = "sampling"
    /\ UNCHANGED <<args, params_Phi, params_df, df_data, sf_given, tp_given>>
    /\ UNCHANGED <<cvmVars, bcVars, sfVars, tfVars, fsVars>>

\* line 513: flows = load_flows(args.flow_fname)
MainLoadFlows ==
    /\ pc = "load_flows"
    /\ flows' = Some(load_flows)
    /\ calls' = Append(calls, "load_flows")
    /\ pc' = "sampling"
    /\ UNCHANGED <<args, params_Phi, params_df, df_data, sf_given, tp_given>>
    /\ UNCHANGED <<cvmVars, bcVars, sfVars, tfVars, fsVars>>

\* lines 517-535: load the gradients (h5py cannot open a file that is not
\* there), or pop the sampling parameters and call sample_from_flows
MainSampling ==
    /\ pc = "sampling"
    /\ IF args.no_flow_sampling
       THEN /\ calls' = Append(calls, "load_df_data")
            /\ IF fs_grads = None
               THEN /\ pc' = "raised"
                    /\ UNCHANGED <<df_data, params_Phi>>
               ELSE /\ df_data' = Some(load_df_data(fs_grads[1], "None"))
                    /\ params_Phi' = PopSampling(params_Phi)
                    /\ pc' = "potential"
            /\ UNCHANGED <<sf_given, sfVars>>
       ELSE /\ params_Phi' = PopSampling(params_Phi)
            /\ calls' = Append(calls, "sample_from_flows")
            /\ sf_given' = flows
            /\ SfEnter(flows[1], params_Phi["n_samples"], TRUE,
                       params_Phi["grad_batch_size"],
                       params_Phi["sample_batch_size"],
                       IF args.flow_median THEN "np.median"
                       ELSE "clipped_vector_mean")
            /\ pc' = "sample_from_flows"
            /\ UNCHANGED df_data
    /\ UNCHANGED <<args, params_df, flows, tp_given>>
    /\ UNCHANGED <<cvmVars, bcVars, tfVars, fsVars>>

\* lines 529-536: df_data = sample_from_flows(...); save_df_data(df_data, ...)
MainSampled ==
    /\ pc = "sample_from_flows"
    /\ sf_pc \in {"returned", "raised"}
    /\ IF sf_pc = "raised"
       THEN /\ pc' = "raised"
            /\ UNCHANGED <<df_data, fs_grads, calls>>
       ELSE /\ df_data' = sf_ret
            /\ fs_grads' = sf_ret
            /\ calls' = Append(calls, "save_df_data")
            /\ pc' = "potential"
    /\ sf_pc' = "idle"
    /\ UNCHANGED <<sfArgs, n_batches, sf_i, sf_k, eta, df_deta_indiv, sf_ret, sf_exc>>
    /\ UNCHANGED <<args, params_Phi, params_df, flows, sf_given, tp_given>>
    /\ UNCHANGED <<fs_ckpt, fs_files>>
    /\ UNCHANGED <<cvmVars, bcVars, tfVars>>

\* lines 540-553: unless --no-potential-training, train_potential(df_data,
\* ..., **params['Phi']); return 0
MainPotential ==
    /\ pc = "potential"
    /\ IF args.no_potential_training
       THEN UNCHANGED <<calls, tp_given>>
       ELSE /\ calls' = Append(calls, "train_potential")
            /\ tp_given' = Some([df_data |-> df_data[1], kwargs |-> DOMAIN params_Phi])
    /\ pc' = "done"
    /\ UNCHANGED <<args, params_Phi, params_df, flows, df_data, sf_given>>
    /\ UNCHANGED <<cvmVars, bcVars, sfVars, tfVars, fsVars>>

\* the program is run again, on the files the earlier runs left
MainAgain ==
    /\ pc \in {"done", "raised"}
    /\ MainBegin
    /\ BcReset /\ SfReset /\ TfReset
    /\ UNCHANGED <<cvmVars, fsVars>>

\* the first run of main, in a directory that holds no output yet
Init ==
    /\ pc = "start"
    /\ args \in Args
    /\ \E ns \in NSamplesChoices, gbs \in GradBatchChoices :
          params_Phi = PhiParams(ns, gbs, 1)
    /\ params_df \in NFlowsChoices
    /\ flows = Unbound /\ df_data = Unbound /\ calls = <<>>
    /\ sf_given = None /\ tp_given = None
    /\ CvmIdle /\ BcIdle /\ SfIdle /\ TfIdle
    /\ fs_ckpt = <<>> /\ fs_files = {} /\ fs_grads = None

Next ==
    \/ MainFlowTraining \/ MainFlowsTrained \/ MainLoadFlows \/ MainSampling
    \/ MainSampled \/ MainPotential \/ MainAgain
    \/ TfCreate \/ TfMkdir \/ TfSaveSpecs \/ TfTrain \/ TfSaveLoss
    \/ TfSavePlot \/ TfReturn
    \/ SfStart \/ SfSampleBatch \/ SfConcat \/ SfCallBatchCalc
    \/ SfStoreGrads \/ SfReturn
    \/ BcBatch \/ BcFinish

Spec == Init /\ [][Next]_vars


\* --------------------------------------------------------------- claim C5
\* C5: for every eta of n_data >= 1 rows and every batch_size >= 1,
\* batch_calc_df_deta ends by returning (it does not raise) exactly n_data
\* gradient rows, row j being the gradient of input row j; every input row
\* went to calc_grads exactly once, in input order, and n_generated = n_data
\* when the loop has ended.
C5_BatchCalcReturnsAllRows ==
    (bc_pc \in {"returned", "raised"} /\ Len(bc_eta) >= 1) =>
        /\ bc_pc = "returned"
        /\ Len(bc_ret) = Len(bc_eta)
        /\ \A j \in 1..Len(bc_eta) : bc_ret[j] = FlowGrad(bc_flow, bc_eta[j])
        /\ Concat(bc_calls) = [j \in 1..Len(bc_eta) |-> j]
        /\ n_generated = Len(bc_eta)


\* ------------------------------------------------------ claims C4 and C8
\* the samples of point p that the mask leaves in, in dimension d
CvmKept(mask, p, d) == {s \in 1..CvmShape[1] : ~mask[s][p][d]}

\* x is the k-th smallest of the squared norms of point p (counted with
\* repetitions), the norms being taken from the mean m
CvmIsKth(m, p, x, k) ==
    LET n == CvmShape[1]
        D == [t \in 1..n |-> Dist2(v_samp, m, t, p, CvmShape[3])]
    IN /\ \E t \in 1..n : D[t] = x
       /\ Cardinality({t \in 1..n : D[t] < x}) < k
       /\ Cardinality({t \in 1..n : D[t] <= x}) >= k

\* sample s of point p lies strictly further from the mean m than
\* clip_threshold times the median distance of all the samples of p
CvmIsOutlier(m, s, p) ==
    LET n == CvmShape[1]
        D == [t \in 1..n |-> Dist2(v_samp, m, t, p, CvmShape[3])]
        Ds == {D[t] : t \in 1..n}
        lo == CHOOSE x \in Ds : CvmIsKth(m, p, x, (n + 1) \div 2)
        hi == CHOOSE x \in Ds : CvmIsKth(m, p, x, (n \div 2) + 1)
    IN Exceeds(D[s], lo, hi, clip_threshold)

\* the entry e is the mean of v_samp[s][p][d] over the samples s in S
CvmIsMeanOver(e, S, p, d) ==
    IF S = {} THEN e = Masked
    ELSE /\ e # Masked
         /\ e[1] * Cardinality(S)
              = e[2] * SumSeq([s \in 1..CvmShape[1] |->
                                 IF s \in S THEN v_samp[s][p][d] ELSE 0])

C4_StartsFromPlainMean ==
    cvm_i = 0 =>
        \A p \in 1..CvmShape[2], d \in 1..CvmShape[3] :
            CvmIsMeanOver(v_mean[p][d], 1..CvmShape[1], p, d)

C4_ExactlyRounds ==
    /\ cvm_i <= rounds
    /\ cvm_pc = "returned" => cvm_i = rounds

C4_RoundStep ==
    cvm_i' # cvm_i =>
        /\ cvm_i' = cvm_i + 1
        /\ \A s \in 1..CvmShape[1], p \in 1..CvmShape[2], d \in 1..CvmShape[3] :
              mask_bad'[s][p][d] = CvmIsOutlier(v_mean, s, p)
        /\ \A p \in 1..CvmShape[2], d \in 1..CvmShape[3] :
              CvmIsMeanOver(v_mean'[p][d], CvmKept(mask_bad', p, d), p, d)

\* C4: clipped_vector_mean starts from the plain mean over the samples and
\* runs exactly `rounds` rounds; in each round, at every point separately, a
\* sample is excluded exactly when its distance from the previous mean is
\* strictly greater than clip_threshold times the median of the distances
\* of all the samples of that point, in every dimension alike, and the new
\* mean is the mean of the samples left in; with rounds = 0 the result is
\* the plain mean.
C4_ClippedVectorMean ==
    /\ [](C4_StartsFromPlainMean /\ C4_ExactlyRounds)
    /\ [][C4_RoundStep]_vars

\* C4 witness: a call of two rounds has returned, having excluded a sample
\* at one point and kept the same sample at another
C4_Witness ==
    /\ cvm_pc = "returned"
    /\ rounds = 2
    /\ clip_threshold = <<1, 1>>
    /\ CvmShape[2] = 2
    /\ \E s \in 1..CvmShape[1] : mask_bad[s][1][1] /\ ~mask_bad[s][2][1]

\* C8: with clip_threshold >= 1, every round leaves at least half of the
\* samples (rounded up) of every point unmasked, so no entry of the mean is
\* ever masked.
C8_AtLeastHalfKept ==
    clip_threshold[1] >= clip_threshold[2] =>
        \A p \in 1..CvmShape[2], d \in 1..CvmShape[3] :
            /\ 2 * Cardinality(CvmKept(mask_bad, p, d)) >= CvmShape[1]
            /\ v_mean[p][d] # Masked

\* C8 witness: a round with clip_threshold >= 1 has excluded a sample and
\* left exactly half of the samples, rounded up
C8_Witness ==
    /\ clip_threshold[1] >= clip_threshold[2]
    /\ cvm_i >= 1
    /\ \E p \in 1..CvmShape[2] :
          Cardinality(CvmKept(mask_bad, p, 1)) = (CvmShape[1] + 1) \div 2
          /\ Cardinality(CvmKept(mask_bad, p, 1)) < CvmShape[1]


\* ---------------------------------------------------------- claims on main
\* s is an initial part of t
IsPrefix(s, t) == Len(s) <= Len(t) /\ SubSeq(t, 1, Len(s)) = s

\* the stages the flags ask for, in the order of the claim
ExpectedCalls(a) ==
    (IF a.no_flow_training THEN <<>> ELSE <<"train_flows">>)
    \o <<"load_flows">>
    \o (IF a.no_flow_sampling THEN <<"load_df_data">>
        ELSE <<"sample_from_flows", "save_df_data">>)
    \o (IF a.no_potential_training THEN <<>> ELSE <<"train_potential">>)

SamplingKeys == {"n_samples", "grad_batch_size", "sample_batch_size"}

\* C1: the df_deta handed to train_potential is the median over flows of
\* df_deta_indiv when --flow-median is given and the clipped mean over flows of
\* df_deta_indiv when it is not, whether the gradients were sampled or loaded
C1_DfDetaFollowsFlowMedian ==
    tp_given # None =>
        LET d == tp_given[1].df_data
        IN d["df_deta"] = IF args.flow_median
                          THEN MedianReduce(d["df_deta_indiv"])
                          ELSE ClippedReduce(d["df_deta_indiv"])

\* C2: the stages of main are called in the fixed order train_flows (unless
\* --no-flow-training), load_flows, sample_from_flows then save_df_data or
\* else load_df_data, train_potential (unless --no-potential-training); a run
\* that returns has called load_flows and every stage its flags ask for, and
\* the flows given to sample_from_flows are the ones load_flows returned,
\* not the ones train_flows returned
C2_StagesInFixedOrder ==
    /\ IsPrefix(calls, ExpectedCalls(args))
    /\ pc = "done" => calls = ExpectedCalls(args)
    /\ sf_given # None =>
          /\ sf_given[1] = load_flows
          /\ \A k \in DOMAIN sf_given[1] : sf_given[1][k].src = "load"
    /\ sf_pc # "idle" => flow_list = sf_given[1]

\* a run with every stage has returned, and train_flows had given flows of
\* its own
C2_Witness ==
    /\ pc = "done"
    /\ calls = <<"train_flows", "load_flows", "sample_from_flows",
                 "save_df_data", "train_potential">>
    /\ Len(tf_flow_list) = 3
    /\ Len(sf_given[1]) = 3

C3_NotSampled ==
    args.no_flow_sampling =>
        /\ "sample_from_flows" \notin {calls[k] : k \in DOMAIN calls}
        /\ "save_df_data" \notin {calls[k] : k \in DOMAIN calls}
        /\ sf_pc = "idle"
        /\ pc \in {"potential", "done"} => df_data = Some(load_df_data(fs_grads[1], "None"))

C3_TrainPotentialArgs ==
    tp_given # None =>
        /\ tp_given[1].kwargs \cap SamplingKeys = {}
        /\ tp_given[1].kwargs = PhiKeys \ SamplingKeys
        /\ tp_given[1].df_data = df_data[1]

\* C3: with --no-flow-sampling main calls neither sample_from_flows nor
\* save_df_data, no step of the run changes the gradients file, and df_data
\* is what load_df_data returned; in both branches train_potential is called
\* without the keys n_samples, grad_batch_size and sample_batch_size
C3_NoSamplingLeavesFile ==
    /\ [](C3_NotSampled /\ C3_TrainPotentialArgs)
    /\ [][args.no_flow_sampling => fs_grads' = fs_grads]_vars

\* a run with --no-flow-sampling has trained the potential on the gradients
\* an earlier run saved
C3_Witness ==
    /\ pc = "done"
    /\ args.no_flow_sampling
    /\ tp_given # None
    /\ fs_grads # None
    /\ tp_given[1].df_data = fs_grads[1]

\* --------------------------------------------------------------- claim C7
\* the per-flow gradients of the rows of eta, in flow_list order
SfGradsPerFlow ==
    [i \in 1..Len(flow_list) |->
        [j \in 1..Len(eta) |-> FlowGrad(flow_list[i], eta[j])]]

\* the call samples at least one batch per flow and hands batch_calc_df_deta
\* more rows than one gradient batch holds
SfUsualCall ==
    /\ Len(flow_list) >= 1
    /\ n_samples >= Len(flow_list) * sample_batch_size
    /\ (n_samples \div (Len(flow_list) * sample_batch_size))
          * Len(flow_list) * sample_batch_size > grad_batch_size

\* C7: a call of sample_from_flows with return_indiv = False ends by
\* returning a dict of exactly the keys eta and df_deta, df_deta being
\* f_reduce of the per-flow gradients; a call with return_indiv = True that
\* returns gives the same keys and df_deta_indiv, one gradient array per
\* flow in flow_list order.
C7_SampleFromFlowsReturns ==
    /\ (sf_pc \in {"returned", "raised"} /\ ~return_indiv /\ SfUsualCall) =>
          /\ sf_pc = "returned"
          /\ DOMAIN sf_ret[1] = {"eta", "df_deta"}
          /\ sf_ret[1]["df_deta"] = Reduce(f_reduce, SfGradsPerFlow)
    /\ (sf_pc = "returned" /\ return_indiv) =>
          /\ DOMAIN sf_ret[1] = {"eta", "df_deta", "df_deta_indiv"}
          /\ sf_ret[1]["df_deta_indiv"] = SfGradsPerFlow
          /\ sf_ret[1]["df_deta"] = Reduce(f_reduce, SfGradsPerFlow)


\* --------------------------------------------------------------- claim C6
\* the names of the six steps of one flow, in the order claimed
C6_StepNames == <<"create", "mkdir", "save_specs", "train", "save_loss", "save_plot">>

\* where step k (1..6) of flow i writes
C6_StepPath(k, i) ==
    CASE k = 1 -> <<"", i>>
      [] k = 2 -> <<"checkpoint_dir", i>>
      [] k = 3 -> <<"fname_pattern", i>>
      [] k = 4 -> <<"checkpoint_dir", i>>
      [] k = 5 -> <<"fname_pattern_loss.txt", i>>
      [] k = 6 -> <<"plot_fname_pattern", i>>

\* C6: train_flows takes its steps strictly in sequence: entry j of the log
\* is step ((j-1) mod 6) of flow (j-1) div 6, so the six steps of flow i (create,
\* make the checkpoint directory, save the specs under fname_pattern.format(i),
\* train, save the loss history, save the plot under
\* plot_fname_pattern.format(i)) all come before any step of flow i+1; it
\* returns exactly n_flows flows in index order, each built with the mean and
\* standard deviation of the data.
C6_TrainFlowsSequential ==
    /\ \A j \in 1..Len(tf_log) :
          /\ tf_log[j].step = C6_StepNames[((j - 1) % 6) + 1]
          /\ tf_log[j].path = C6_StepPath(((j - 1) % 6) + 1, (j - 1) \div 6)
    /\ tf_pc = "returned" =>
          /\ Len(tf_log) = 6 * tf_n_flows
          /\ Len(tf_flow_list) = tf_n_flows
          /\ \A i \in 1..tf_n_flows :
                /\ tf_flow_list[i].id = i - 1
                /\ tf_flow_list[i].base_mean = DataMean(tf_data)
                /\ tf_flow_list[i].base_std = DataStd(tf_data)

\* C6 witness: train_flows has returned an ensemble of at least two flows
C6_Witness ==
    /\ tf_pc = "returned"
    /\ tf_n_flows >= 2
    /\ Len(tf_log) = 6 * tf_n_flows

====
